---- MODULE Spec2Model ----
(***************************************************************************)
(* A model of the spreadsheet engine: cells holding Empty / Text / Formula *)
(* values, the dependency graph between them (descending_cells_ and        *)
(* ascending_cells_), cycle rejection on Set and the formula cache with    *)
(* its invalidation walk.                                                  *)
(*                                                                         *)
(* A text is the sequence of its lexemes: every lexeme is one character,   *)
(* except a cell name ("A1"), which is one lexeme.  A double is the exact  *)
(* rational <<num, den>> in lowest terms with den > 0.                     *)
(***************************************************************************)
EXTENDS Integers, Sequences, FiniteSets, TLC

\* The largest number the caller types into the literal cell.
MaxNum == 1

DigitChar == <<"0", "1", "2", "3", "4", "5", "6", "7", "8", "9">>

\* The texts the caller sets at each position.  The grid is one row; a
\* position is its column number.
Menu ==
    << { <<DigitChar[n + 1]>> : n \in 0..MaxNum }
           \cup { <<>>, <<"x">>, <<"=", "A1">>, <<"=", "D1">>, <<"=", "+">> },
       { <<"=", "A1", "+", "1">>, <<"=", "A1", "+", "B1">>, <<"=">> },
       { <<"=", "A1", "+", "2">> },
       { <<"=", "C1", "/", "A1", "+", "B1">>, <<"=", "C1", "+", "B1">> } >>

Positions == DOMAIN Menu

\* The result of sheet.GetCell for a position that holds no cell.
NullCell == 0

CellName == <<"A1", "B1", "C1", "D1">>

FORMULA_SIGN == "="

ESCAPE_SIGN == "'"

IsDigit(c) == \E i \in 1..10 : DigitChar[i] = c

DigitValue(c) == (CHOOSE i \in 1..10 : DigitChar[i] = c) - 1

IsCellName(c) == \E p \in Positions : CellName[p] = c

PositionOf(c) == CHOOSE p \in Positions : CellName[p] = c

--------------------------------------------------------------------------
\* Values: CellInterface::Value is variant<string, double, FormulaError>.

Abs(n) == IF n < 0 THEN -n ELSE n

RECURSIVE Gcd(_, _)
Gcd(a, b) == IF b = 0 THEN a ELSE Gcd(b, a % b)

Dbl(n, d) ==
    LET g == Gcd(Abs(n), Abs(d))
        s == IF d < 0 THEN -1 ELSE 1
    IN  [kind |-> "double", num |-> (s * n) \div g, den |-> (s * d) \div g,
         str |-> <<>>, cat |-> "none"]

Str(s) == [kind |-> "string", num |-> 0, den |-> 1, str |-> s, cat |-> "none"]

FormulaError(c) == [kind |-> "error", num |-> 0, den |-> 1, str |-> <<>>, cat |-> c]

Categories == {"Ref", "Value", "Div0"}

\* std::optional<double> cache_: empty, or a double.
NoCache == [has |-> FALSE, num |-> 0, den |-> 1]

Cached(v) == [has |-> TRUE, num |-> v.num, den |-> v.den]

CacheValue(c) == Dbl(c.num, c.den)

--------------------------------------------------------------------------
\* The formula parser (FormulaAST), for the expressions
\*     operand | operand op operand | operand op operand op operand
\* where an operand is a digit or a cell name; every other body is rejected.

Ops == {"+", "-", "*", "/"}

IsOperand(t) == IsDigit(t) \/ IsCellName(t)

Operand(t) ==
    IF IsDigit(t) THEN [k |-> "num", v |-> DigitValue(t)]
    ELSE [k |-> "ref", p |-> PositionOf(t)]

Bin(o, l, r) == [k |-> "bin", op |-> o, l |-> l, r |-> r]

Prec(o) == IF o \in {"*", "/"} THEN 2 ELSE 1

\* TRUE iff ParseFormulaAST accepts the body (it throws otherwise).
ParseOk(body) ==
    \/ Len(body) = 1 /\ IsOperand(body[1])
    \/ Len(body) = 3 /\ IsOperand(body[1]) /\ body[2] \in Ops /\ IsOperand(body[3])
    \/ Len(body) = 5 /\ IsOperand(body[1]) /\ body[2] \in Ops /\ IsOperand(body[3])
                     /\ body[4] \in Ops /\ IsOperand(body[5])

ParseFormulaAST(body) ==
    IF Len(body) = 1 THEN Operand(body[1])
    ELSE IF Len(body) = 3 THEN Bin(body[2], Operand(body[1]), Operand(body[3]))
    ELSE IF Prec(body[4]) > Prec(body[2])
         THEN Bin(body[2], Operand(body[1]),
                  Bin(body[4], Operand(body[3]), Operand(body[5])))
         ELSE Bin(body[4], Bin(body[2], Operand(body[1]), Operand(body[3])),
                  Operand(body[5]))

\* FormulaAST::GetCells: the referenced positions in order of occurrence.
RECURSIVE GetCells(_)
GetCells(ast) ==
    IF ast.k = "num" THEN <<>>
    ELSE IF ast.k = "ref" THEN <<ast.p>>
    ELSE GetCells(ast.l) \o GetCells(ast.r)

\* FormulaAST::PrintFormula: the canonical text of the expression.
RECURSIVE PrintFormula(_)
PrintFormula(ast) ==
    IF ast.k = "num" THEN <<DigitChar[ast.v + 1]>>
    ELSE IF ast.k = "ref" THEN <<CellName[ast.p]>>
    ELSE PrintFormula(ast.l) \o <<ast.op>> \o PrintFormula(ast.r)

--------------------------------------------------------------------------
\* Formula::Formula: std::unique, then std::sort, of the AST's cells.

RECURSIVE Unique(_)
Unique(s) ==
    IF Len(s) <= 1 THEN s
    ELSE IF s[1] = s[2] THEN Unique(Tail(s))
    ELSE <<s[1]>> \o Unique(Tail(s))

RECURSIVE Insert(_, _)
Insert(x, s) ==
    IF s = <<>> THEN <<x>>
    ELSE IF x <= s[1] THEN <<x>> \o s
    ELSE <<s[1]>> \o Insert(x, Tail(s))

RECURSIVE Sort(_)
Sort(s) == IF s = <<>> THEN <<>> ELSE Insert(s[1], Sort(Tail(s)))

ReferencedCells(ast) == Sort(Unique(GetCells(ast)))

--------------------------------------------------------------------------
\* The cell values (CellValueInterface and its three implementations).

NoAst == [k |-> "none"]

NullValue == [type |-> "Null", text |-> <<>>, ast |-> NoAst, refs |-> <<>>]

EmptyCellValue == [type |-> "Empty", text |-> <<>>, ast |-> NoAst, refs |-> <<>>]

TextCellValue(t) == [type |-> "Text", text |-> t, ast |-> NoAst, refs |-> <<>>]

FormulaCellValue(body) ==
    LET a == ParseFormulaAST(body)
    IN  [type |-> "Formula", text |-> <<>>, ast |-> a, refs |-> ReferencedCells(a)]

\* Cell::TryCreateCell: "ok" with the new value, or FormulaException.
TryCreateCell(text) ==
    IF Len(text) > 1 /\ Head(text) = FORMULA_SIGN
    THEN IF ParseOk(Tail(text))
         THEN [res |-> "ok", val |-> FormulaCellValue(Tail(text))]
         ELSE [res |-> "FormulaException", val |-> NullValue]
    ELSE IF text # <<>>
         THEN [res |-> "ok", val |-> TextCellValue(text)]
         ELSE [res |-> "ok", val |-> EmptyCellValue]

\* Cell::TryInterpretAsFormula: is the value a FormulaCellValue?
TryInterpretAsFormula(v) == v.type = "Formula"

\* GetText of the three implementations.
ValueGetText(v) ==
    IF v.type = "Formula" THEN <<FORMULA_SIGN>> \o PrintFormula(v.ast)
    ELSE v.text

\* TextCellValue::GetValue: the text without one leading escape sign.
TextGetValue(t) == IF t # <<>> /\ Head(t) = ESCAPE_SIGN THEN Tail(t) ELSE t

--------------------------------------------------------------------------
\* CellValueGetter: what a formula reads from a referenced cell's value.

AllDigits(s, i, j) == \A k \in i..j : IsDigit(s[k])

\* std::regex_match against kDoubleValuePattern,
\*     ^(-?)(0|([1-9][0-9]*))(.[0-9]+)?$
\* whose '.' is the regular expression's "any character".
RegexMatch(s) ==
    LET n == Len(s)
        i == IF n > 0 /\ s[1] = "-" THEN 2 ELSE 1
    IN  \E e \in i..n :
            /\ \/ e = i /\ s[i] = "0"
               \/ IsDigit(s[i]) /\ s[i] # "0" /\ AllDigits(s, i + 1, e)
            /\ \/ e = n
               \/ n >= e + 2 /\ AllDigits(s, e + 2, n)

RECURSIVE Pow(_, _)
Pow(b, e) == IF e = 0 THEN 1 ELSE b * Pow(b, e - 1)

\* The number written by the digits s[i..j] in the given base.
RECURSIVE DigitsValue(_, _, _, _)
DigitsValue(s, i, j, base) ==
    IF j < i THEN 0 ELSE DigitsValue(s, i, j - 1, base) * base + DigitValue(s[j])

\* The end of the run of digits of s that starts at i (i - 1 if there is none).
RECURSIVE RunEnd(_, _)
RunEnd(s, i) == IF i <= Len(s) /\ IsDigit(s[i]) THEN RunEnd(s, i + 1) ELSE i - 1

\* std::stod of a text the pattern accepts: the longest prefix that reads as a
\* number (decimal with fraction or exponent, or hexadecimal after "0x").
Stod(s) ==
    LET n    == Len(s)
        neg  == s[1] = "-"
        i    == IF neg THEN 2 ELSE 1
        k    == RunEnd(s, i)
        int  == DigitsValue(s, i, k, 10)
        m    == RunEnd(s, k + 2)
        c    == IF k < n THEN s[k + 1] ELSE ""
        mag  == IF c = "." THEN Dbl(int * Pow(10, m - k - 1) + DigitsValue(s, k + 2, m, 10),
                                    Pow(10, m - k - 1))
                ELSE IF c \in {"e", "E"} /\ m >= k + 2
                     THEN Dbl(int * Pow(10, DigitsValue(s, k + 2, m, 10)), 1)
                ELSE IF c \in {"x", "X"} /\ k = i /\ s[i] = "0" /\ m >= k + 2
                     THEN Dbl(DigitsValue(s, k + 2, m, 16), 1)
                ELSE Dbl(int, 1)
    IN  IF neg THEN Dbl(-mag.num, mag.den) ELSE mag

\* CellValueGetter::operator(): a double, or the FormulaError it throws.
CellValueGetter(v) ==
    IF v.kind = "string"
    THEN IF RegexMatch(v.str) THEN Stod(v.str) ELSE FormulaError("Value")
    ELSE v

\* The arithmetic of a binary node; a non-finite result throws Div0.
Arith(o, a, b) ==
    IF o = "+" THEN Dbl(a.num * b.den + b.num * a.den, a.den * b.den)
    ELSE IF o = "-" THEN Dbl(a.num * b.den - b.num * a.den, a.den * b.den)
    ELSE IF o = "*" THEN Dbl(a.num * b.num, a.den * b.den)
    ELSE IF b.num = 0 THEN FormulaError("Div0")
    ELSE Dbl(a.num * b.den, a.den * b.num)

--------------------------------------------------------------------------
VARIABLES
    data_,             \* Sheet::data_: the positions that hold a Cell
    value_,            \* Cell::value_ of each position (NullValue: the null pointer)
    cache_,            \* FormulaCellValue::cache_ of each position
    descending_cells_, \* Cell::descending_cells_: the cells its formula references
    ascending_cells_,  \* Cell::ascending_cells_: the cells whose formula references it
    fault,             \* the process has stopped on a dereference of a null pointer
    last,              \* the last call and what it returned
    errored,           \* the cells whose last GetValue returned a FormulaError
    output,            \* the stream: each FormulaError written and the token it wrote
    work               \* what the last call did inside, step by step

vars == <<data_, value_, cache_, descending_cells_, ascending_cells_, fault, last, errored, output, work>>

\* Sheet::GetCell: the cell at a position of the sheet that holds the cells
\* cs, or the null pointer.
SheetGetCell(cs, p) == IF p \in cs THEN p ELSE NullCell

\* Cell::GetCell.
GetCell(cs, p) == SheetGetCell(cs, p)

\* An evaluation yields the value, the caches it has filled on the way,
\* whether it dereferenced the null value_ of a cell that was never set, and
\* how deep the calls of Cell::GetValue were nested under it.
Result(v, c, f, d) == [val |-> v, cache_ |-> c, fault |-> f, depth |-> d]

Max(a, b) == IF a >= b THEN a ELSE b

RECURSIVE Execute(_, _), CellGetValue(_, _)

\* FormulaAST::Execute with Formula::Evaluate's lookup, left operand first; a
\* FormulaError thrown on the way ends the evaluation and is its value.
Execute(ast, c) ==
    IF ast.k = "num" THEN Result(Dbl(ast.v, 1), c, FALSE, 0)
    ELSE IF ast.k = "ref"
    THEN IF SheetGetCell(data_, ast.p) = NullCell THEN Result(Dbl(0, 1), c, FALSE, 0)
         ELSE LET r == CellGetValue(ast.p, c)
              IN  Result(CellValueGetter(r.val), r.cache_, r.fault, r.depth)
    ELSE LET l == Execute(ast.l, c)
         IN  IF l.fault \/ l.val.kind = "error" THEN l
             ELSE LET r == Execute(ast.r, l.cache_)
                  IN  IF r.fault \/ r.val.kind = "error"
                      THEN Result(r.val, r.cache_, r.fault, Max(l.depth, r.depth))
                      ELSE Result(Arith(ast.op, l.val, r.val), r.cache_, FALSE,
                                  Max(l.depth, r.depth))

\* A GetValue that hands a cached number out once: the read resets the cache.
CellGetValueConsumesCache(p, c) ==
    LET v == value_[p]
    IN  IF v.type = "Null" THEN Result(Dbl(0, 1), c, TRUE, 1)
        ELSE IF v.type = "Empty" THEN Result(Dbl(0, 1), c, FALSE, 1)
        ELSE IF v.type = "Text" THEN Result(Str(TextGetValue(v.text)), c, FALSE, 1)
        ELSE IF c[p].has
        THEN Result(CacheValue(c[p]), [c EXCEPT ![p] = NoCache], FALSE, 1)
        ELSE LET r == Execute(v.ast, c)
             IN  IF ~r.fault /\ r.val.kind = "double"
                 THEN Result(r.val, [r.cache_ EXCEPT ![p] = Cached(r.val)], FALSE,
                             r.depth + 1)
                 ELSE Result(r.val, r.cache_, r.fault, r.depth + 1)

\* A GetValue that stores whatever the evaluation yields: an error is cached
\* like a number.
CellGetValueCachesErrors(p, c) ==
    LET v == value_[p]
    IN  IF v.type = "Null" THEN Result(Dbl(0, 1), c, TRUE, 1)
        ELSE IF v.type = "Empty" THEN Result(Dbl(0, 1), c, FALSE, 1)
        ELSE IF v.type = "Text" THEN Result(Str(TextGetValue(v.text)), c, FALSE, 1)
        ELSE IF c[p].has THEN Result(CacheValue(c[p]), c, FALSE, 1)
        ELSE LET r == Execute(v.ast, c)
             IN  IF ~r.fault
                 THEN Result(r.val, [r.cache_ EXCEPT ![p] = Cached(r.val)], FALSE,
                             r.depth + 1)
                 ELSE Result(r.val, r.cache_, r.fault, r.depth + 1)

\* Cell::GetValue, with FormulaCellValue::GetValue filling the cache.
CellGetValue(p, c) ==
    LET v == value_[p]
    IN  IF v.type = "Null" THEN Result(Dbl(0, 1), c, TRUE, 1)
        ELSE IF v.type = "Empty" THEN Result(Dbl(0, 1), c, FALSE, 1)
        ELSE IF v.type = "Text" THEN Result(Str(TextGetValue(v.text)), c, FALSE, 1)
        ELSE IF c[p].has THEN Result(CacheValue(c[p]), c, FALSE, 1)
        ELSE LET r == Execute(v.ast, c)
             IN  IF ~r.fault /\ r.val.kind = "double"
                 THEN Result(r.val, [r.cache_ EXCEPT ![p] = Cached(r.val)], FALSE,
                             r.depth + 1)
                 ELSE Result(r.val, r.cache_, r.fault, r.depth + 1)

--------------------------------------------------------------------------
\* The dependency graph.

\* What the check returns, the cells it has visited, and how many times it
\* has inserted a cell into visited and gone into it.
Outcome(r, vis, n) == [res |-> r, visited |-> vis, n |-> n]

RECURSIVE HasCircularDependency(_, _, _, _), HasCircularLoop(_, _, _, _, _)

\* A loop that goes into every referenced cell, visited or not.
HasCircularLoopRevisits(cs, reference, refs, i, visited) ==
    IF i > Len(refs) THEN Outcome("false", visited, 0)
    ELSE LET cell == GetCell(cs, refs[i])
         IN  IF cell = reference THEN Outcome("true", visited, 0)
             ELSE IF cell = NullCell THEN Outcome("null", visited \cup {cell}, 1)
             ELSE LET r == HasCircularDependency(cs, reference, value_[cell],
                                                 visited \cup {cell})
                  IN  IF r.res # "false" THEN Outcome(r.res, r.visited, r.n + 1)
                      ELSE LET s == HasCircularLoop(cs, reference, refs, i + 1,
                                                    r.visited)
                           IN  Outcome(s.res, s.visited, r.n + 1 + s.n)

\* A loop that takes a cell it has visited before for a cycle.
HasCircularLoopVisitedIsCycle(cs, reference, refs, i, visited) ==
    IF i > Len(refs) THEN Outcome("false", visited, 0)
    ELSE LET cell == GetCell(cs, refs[i])
         IN  IF cell = reference \/ cell \in visited THEN Outcome("true", visited, 0)
             ELSE IF cell = NullCell THEN Outcome("null", visited \cup {cell}, 1)
             ELSE LET r == HasCircularDependency(cs, reference, value_[cell],
                                                 visited \cup {cell})
                  IN  IF r.res # "false" THEN Outcome(r.res, r.visited, r.n + 1)
                      ELSE LET s == HasCircularLoop(cs, reference, refs, i + 1,
                                                    r.visited)
                           IN  Outcome(s.res, s.visited, r.n + 1 + s.n)

\* The loop of Cell::HasCircularDependency from the i-th referenced position
\* on.  "null": the loop calls a member of the null pointer GetCell returned.
HasCircularLoop(cs, reference, refs, i, visited) ==
    IF i > Len(refs) THEN Outcome("false", visited, 0)
    ELSE LET cell == GetCell(cs, refs[i])
         IN  IF cell = reference THEN Outcome("true", visited, 0)
             ELSE IF cell \notin visited
             THEN IF cell = NullCell THEN Outcome("null", visited \cup {cell}, 1)
                  ELSE LET r == HasCircularDependency(cs, reference, value_[cell],
                                                      visited \cup {cell})
                       IN  IF r.res # "false" THEN Outcome(r.res, r.visited, r.n + 1)
                           ELSE LET s == HasCircularLoop(cs, reference, refs, i + 1,
                                                         r.visited)
                                IN  Outcome(s.res, s.visited, r.n + 1 + s.n)
             ELSE HasCircularLoop(cs, reference, refs, i + 1, visited)

\* A check that looks at the referenced cells themselves and no further.
HasCircularDependencyDirect(cs, reference, current, visited) ==
    IF ~TryInterpretAsFormula(current) THEN Outcome("false", visited, 0)
    ELSE IF \E i \in 1..Len(current.refs) : GetCell(cs, current.refs[i]) = reference
    THEN Outcome("true", visited, 0)
    ELSE IF \E i \in 1..Len(current.refs) : GetCell(cs, current.refs[i]) = NullCell
    THEN Outcome("null", visited \cup {NullCell}, 1)
    ELSE Outcome("false", visited, 0)

HasCircularDependency(cs, reference, current, visited) ==
    IF ~TryInterpretAsFormula(current) THEN Outcome("false", visited, 0)
    ELSE HasCircularLoop(cs, reference, current.refs, 1, visited)

\* The cells a walk has visited, the caches it leaves, and how many times it
\* has inserted a cell into visited.
Walk(vis, c, n) == [visited |-> vis, cache_ |-> c, n |-> n]

\* The walk w with one more insertion counted, followed by each walk of ws.
Then(w, ws) == { Walk(x.visited, x.cache_, w.n + 1 + x.n) : x \in ws }

RECURSIVE InvalidateReferencedCellsCache(_, _, _, _, _), InvalidateLoop(_, _, _, _, _)

\* The loop of Cell::InvalidateReferencedCellsCache over the cells of rest that
\* it has not yet reached: an unordered_set is iterated in an unspecified
\* order, so the loop yields the set of the walks every order can produce.
InvalidateLoop(rest, visited, c, val, asc) ==
    IF rest = {} THEN {Walk(visited, c, 0)}
    ELSE UNION { IF cell \in visited THEN {Walk(visited, c, 0)}
                 ELSE IF TryInterpretAsFormula(val[cell]) /\ c[cell].has
                 THEN UNION { Then(w, InvalidateLoop(rest \ {cell}, w.visited, w.cache_,
                                                     val, asc)) :
                              w \in InvalidateReferencedCellsCache(
                                        cell, visited \cup {cell},
                                        [c EXCEPT ![cell] = NoCache], val, asc) }
                 ELSE Then(Walk(visited, c, 0),
                           InvalidateLoop(rest \ {cell}, visited \cup {cell}, c, val, asc))
               : cell \in rest }

\* A walk that resets the cache of every cell of the sheet.
InvalidateEveryCache(this, visited, c, val, asc) ==
    {Walk(Positions, [q \in Positions |-> NoCache], Cardinality(Positions \ visited))}

InvalidateReferencedCellsCache(this, visited, c, val, asc) ==
    InvalidateLoop(asc[this], visited, c, val, asc)

Graph(d, a, f) == [descending_cells_ |-> d, ascending_cells_ |-> a, fault |-> f]

\* A removal that clears descending_cells_ and erases nothing elsewhere.
RemoveOldConnectionsOneSided(this, g) ==
    Graph([g.descending_cells_ EXCEPT ![this] = {}], g.ascending_cells_, g.fault)

\* A removal that is left out: the old edges stay.
RemoveOldConnectionsSkipped(this, g) == g

\* Cell::RemoveOldConnections.
RemoveOldConnections(this, g) ==
    Graph([g.descending_cells_ EXCEPT ![this] = {}],
          [q \in Positions |-> IF q \in g.descending_cells_[this]
                               THEN g.ascending_cells_[q] \ {this} ELSE g.ascending_cells_[q]],
          g.fault)

\* Cell::EstablishNewConnections from the i-th referenced position on; it
\* stops where it inserts into ascending_cells_ of the null pointer.
RECURSIVE EstablishNewConnections(_, _, _, _, _)

\* An attachment that inserts into descending_cells_ and into no ascending_cells_.
EstablishNewConnectionsOneSided(cs, this, refs, i, g) ==
    Graph([g.descending_cells_ EXCEPT
               ![this] = @ \cup { GetCell(cs, refs[k]) : k \in i..Len(refs) }],
          g.ascending_cells_,
          \E k \in i..Len(refs) : GetCell(cs, refs[k]) = NullCell)

EstablishNewConnections(cs, this, refs, i, g) ==
    IF i > Len(refs) THEN g
    ELSE LET cell == GetCell(cs, refs[i])
             d    == [g.descending_cells_ EXCEPT ![this] = @ \cup {cell}]
         IN  IF cell = NullCell THEN Graph(d, g.ascending_cells_, TRUE)
             ELSE EstablishNewConnections(cs, this, refs, i + 1,
                      Graph(d, [g.ascending_cells_ EXCEPT ![cell] = @ \cup {this}], FALSE))

--------------------------------------------------------------------------
\* The calls.

NoValue == [kind |-> "none", num |-> 0, den |-> 1, str |-> <<>>, cat |-> "none"]

Call(o, p, t, r, v, rs) ==
    [op |-> o, pos |-> p, text |-> t, res |-> r, val |-> v, refs |-> rs]

\* The inside of a call: the steps of Cell::Set or Cell::Clear in the order
\* the code takes them, the insertions into visited the cycle check and the
\* invalidation walk have made next to the size visited has reached, and the
\* depth of the evaluation.
Work(s, chk, w, d) ==
    [steps |-> s, check |-> chk.n, checked |-> Cardinality(chk.visited),
     walk |-> w.n, walked |-> Cardinality(w.visited), depth |-> d]

\* CellsStorage visited{this} before the check or the walk has run.
NoCheck(this) == Outcome("false", {this}, 0)

NoWalk(this) == Walk({this}, cache_, 0)

Idle == Work(<<>>, NoCheck(NullCell), NoWalk(NullCell), 0)

Init ==
    /\ data_ = {}
    /\ value_ = [p \in Positions |-> NullValue]
    /\ cache_ = [p \in Positions |-> NoCache]
    /\ descending_cells_ = [p \in Positions |-> {}]
    /\ ascending_cells_ = [p \in Positions |-> {}]
    /\ fault = FALSE
    /\ last = Call("Init", 0, <<>>, "ok", NoValue, <<>>)
    /\ errored = {}
    /\ output = <<>>
    /\ work = Idle

\* A Set that has moved the new value in before it throws.
SetRejectedAfterSwap(this, text, exception) ==
    /\ last' = Call("SetCell", this, text, exception, NoValue, <<>>)
    /\ value_' = [value_ EXCEPT ![this] = TryCreateCell(text).val]
    /\ UNCHANGED <<cache_, descending_cells_, ascending_cells_, fault>>

\* Cell::Set leaving by an exception: FormulaException out of TryCreateCell,
\* CircularDependencyException after the check.
SetRejected(this, text, exception) ==
    /\ last' = Call("SetCell", this, text, exception, NoValue, <<>>)
    /\ UNCHANGED <<value_, cache_, descending_cells_, ascending_cells_, fault>>

\* Cell::Set of the cell this of a sheet that holds the cells cs.  Where the
\* check calls a member of the null pointer the process stops: there, or where
\* EstablishNewConnections writes through the same null pointer.
CellSet(cs, this, text) ==
    LET tmp == TryCreateCell(text)
        chk == HasCircularDependency(cs, this, tmp.val, {this})
        g0  == Graph(descending_cells_, ascending_cells_, FALSE)
        g1  == IF descending_cells_[this] # {} THEN RemoveOldConnections(this, g0) ELSE g0
        g2  == IF TryInterpretAsFormula(tmp.val)
               THEN EstablishNewConnections(cs, this, tmp.val.refs, 1, g1) ELSE g1
        v1  == [value_ EXCEPT ![this] = tmp.val]
        c1  == [cache_ EXCEPT ![this] = NoCache]
        s1  == <<"construct", "check", "swap">>
                   \o (IF descending_cells_[this] # {} THEN <<"detach">> ELSE <<>>)
                   \o (IF TryInterpretAsFormula(tmp.val) THEN <<"attach">> ELSE <<>>)
    IN  IF tmp.res # "ok"
        THEN /\ SetRejected(this, text, "FormulaException")
             /\ work' = Work(<<"construct">>, NoCheck(this), NoWalk(this), 0)
        ELSE IF chk.res = "true"
        THEN /\ SetRejected(this, text, "CircularDependency")
             /\ work' = Work(<<"construct", "check">>, chk, NoWalk(this), 0)
        ELSE IF chk.res = "null"
        THEN /\ last' = Call("SetCell", this, text, "fault", NoValue, <<>>)
             /\ work' = Work(<<"construct", "check">>, chk, NoWalk(this), 0)
             /\ fault' = TRUE
             /\ \/ UNCHANGED <<value_, cache_, descending_cells_, ascending_cells_>>
                \/ /\ value_' = v1
                   /\ cache_' = c1
                   /\ descending_cells_' = g2.descending_cells_
                   /\ ascending_cells_' = g2.ascending_cells_
        ELSE /\ last' = Call("SetCell", this, text, "ok", NoValue, <<>>)
             /\ value_' = v1
             /\ descending_cells_' = g2.descending_cells_
             /\ ascending_cells_' = g2.ascending_cells_
             /\ fault' = FALSE
             /\ IF g2.ascending_cells_[this] # {}
                THEN \E w \in InvalidateReferencedCellsCache(this, {this}, c1, v1,
                                                             g2.ascending_cells_) :
                         /\ cache_' = w.cache_
                         /\ work' = Work(s1 \o <<"invalidate">>, chk, w, 0)
                ELSE /\ cache_' = c1
                     /\ work' = Work(s1, chk, NoWalk(this), 0)

\* Sheet::SetCell: the sheet makes sure a Cell exists at p, then Cell::Set.
SetCell(p, text) ==
    /\ ~fault
    /\ data_' = data_ \cup {p}
    /\ CellSet(data_ \cup {p}, p, text)
    /\ errored' = IF last'.res = "ok" THEN errored \ {p} ELSE errored
    /\ output' = output

\* Cell::Clear.
CellClear(this) ==
    LET g0 == Graph(descending_cells_, ascending_cells_, FALSE)
        g1 == IF descending_cells_[this] # {} THEN RemoveOldConnections(this, g0) ELSE g0
        s1 == IF descending_cells_[this] # {} THEN <<"detach">> ELSE <<>>
    IN  /\ value_' = [value_ EXCEPT ![this] = EmptyCellValue]
        /\ IF value_[this].type = "Null"
           THEN /\ UNCHANGED <<cache_, descending_cells_, ascending_cells_>>
                /\ work' = Work(<<"swap">>, NoCheck(this), NoWalk(this), 0)
           ELSE /\ descending_cells_' = g1.descending_cells_
                /\ ascending_cells_' = g1.ascending_cells_
                /\ IF g1.ascending_cells_[this] # {}
                   THEN \E w \in InvalidateReferencedCellsCache(this, {this}, cache_,
                                                                value_, g1.ascending_cells_) :
                            /\ cache_' = [w.cache_ EXCEPT ![this] = NoCache]
                            /\ work' = Work(s1 \o <<"invalidate", "reset", "swap">>,
                                            NoCheck(this), w, 0)
                   ELSE /\ cache_' = [cache_ EXCEPT ![this] = NoCache]
                        /\ work' = Work(s1 \o <<"reset", "swap">>, NoCheck(this),
                                        NoWalk(this), 0)

\* Sheet::ClearCell: nothing where no cell is, Cell::Clear otherwise.
ClearCell(p) ==
    /\ ~fault
    /\ last' = Call("ClearCell", p, <<>>, "ok", NoValue, <<>>)
    /\ UNCHANGED <<data_, fault, output>>
    /\ errored' = errored \ {p}
    /\ IF p \in data_ THEN CellClear(p)
       ELSE /\ UNCHANGED <<value_, cache_, descending_cells_, ascending_cells_>>
            /\ work' = Idle

\* Cell::GetValue of the cell at p.  Where the evaluation calls a member of a
\* null value_ the process stops, or the call returns an unspecified value.
GetValue(p) ==
    LET r == CellGetValue(p, cache_)
    IN  /\ ~fault
        /\ p \in data_
        /\ cache_' = r.cache_
        /\ work' = Work(<<>>, NoCheck(NullCell), NoWalk(NullCell), r.depth)
        /\ UNCHANGED <<data_, value_, descending_cells_, ascending_cells_, output>>
        /\ IF r.fault
           THEN /\ \/ fault' = TRUE
                      /\ last' = Call("GetValue", p, <<>>, "fault", NoValue, <<>>)
                   \/ fault' = FALSE
                      /\ last' = Call("GetValue", p, <<>>, "unspecified", NoValue, <<>>)
                /\ errored' = errored \ {p}
           ELSE /\ fault' = FALSE
                /\ last' = Call("GetValue", p, <<>>, "ok", r.val, <<>>)
                /\ errored' = IF r.val.kind = "error" THEN errored \cup {p}
                              ELSE errored \ {p}

\* Cell::GetReferencedCells of the cell at p.  On a cell that holds no formula
\* it calls a member of the null pointer TryInterpretAsFormula returns: the
\* process stops, or the call returns an unspecified list.
GetReferencedCells(p) ==
    /\ ~fault
    /\ p \in data_
    /\ UNCHANGED <<data_, value_, cache_, descending_cells_, ascending_cells_, errored, output>>
    /\ work' = Idle
    /\ IF TryInterpretAsFormula(value_[p])
       THEN /\ fault' = FALSE
            /\ last' = Call("GetReferencedCells", p, <<>>, "ok", NoValue, value_[p].refs)
       ELSE \/ fault' = TRUE
               /\ last' = Call("GetReferencedCells", p, <<>>, "fault", NoValue, <<>>)
            \/ fault' = FALSE
               /\ last' = Call("GetReferencedCells", p, <<>>, "unspecified", NoValue, <<>>)

\* The most FormulaErrors written to one stream.
MaxOutput == 4

\* operator<<(std::ostream&, FormulaError): the token it writes.
PrintError(cat) == <<"#DIV/0!">>

\* Writing a FormulaError of the given category to the stream.
OutputError(cat) ==
    /\ Len(output) < MaxOutput
    /\ output' = Append(output, [cat |-> cat, token |-> PrintError(cat)])
    /\ UNCHANGED <<data_, value_, cache_, descending_cells_, ascending_cells_, fault, last, errored,
                   work>>

Next ==
    \/ \E p \in Positions : \E text \in Menu[p] : SetCell(p, text)
    \/ \E p \in Positions : ClearCell(p)
    \/ \E p \in Positions : GetValue(p)
    \/ \E p \in Positions : GetReferencedCells(p)

Spec == Init /\ [][Next]_vars

\* The stream alone: FormulaErrors of every category written one after another.
NextPrint == \E cat \in Categories : OutputError(cat)

SpecPrint == Init /\ [][NextPrint]_vars

\* The formula cell of the sheets below, and the cells its formulas name.
FormulaCell == Len(CellName)

Operands == { CellName[p] : p \in Positions \ {FormulaCell} }

\* The sums of up to three cells, in every order and with every repetition.
Sums ==
    { <<a>> : a \in Operands }
        \cup { <<a, "+", b>> : a \in Operands, b \in Operands }
        \cup { <<a, "+", b, "+", c>> : a \in Operands, b \in Operands, c \in Operands }

\* Formula::Formula at work: a sheet of empty cells and one cell that is set
\* to each of the sums and asked for its referenced cells.
NextFormula ==
    \/ \E p \in Positions \ {FormulaCell} : SetCell(p, <<>>)
    \/ \E body \in Sums : SetCell(FormulaCell, <<FORMULA_SIGN>> \o body)
    \/ GetReferencedCells(FormulaCell)

SpecFormula == Init /\ [][NextFormula]_vars

\* The characters of the texts a formula is made to read.
ReadChars == {"0", "1", ".", "-", "e"}

\* The texts of up to three of these characters, bare and behind the escape
\* sign.
ReadTexts ==
    LET bodies == { <<>> } \cup { <<a>> : a \in ReadChars }
                      \cup { <<a, b>> : a \in ReadChars, b \in ReadChars }
                      \cup { <<a, b, c>> : a \in ReadChars, b \in ReadChars,
                                           c \in ReadChars }
    IN  bodies \cup { <<ESCAPE_SIGN>> \o t : t \in bodies }

\* CellValueGetter at work: the first cell is set to each of the texts, the
\* second to the formula that reads the first, and the second is evaluated.
NextRead ==
    \/ \E text \in ReadTexts : SetCell(PositionOf("A1"), text)
    \/ SetCell(PositionOf("B1"), <<FORMULA_SIGN, "A1">>)
    \/ GetValue(PositionOf("B1"))

SpecRead == Init /\ [][NextRead]_vars

--------------------------------------------------------------------------
\* The properties.

\* What evaluating the formula of p yields when no cache is set.
FromScratch(p) == Execute(value_[p].ast, [q \in Positions |-> NoCache])

FormulaCells == { p \in data_ : TryInterpretAsFormula(value_[p]) }

\* The cells reached from the cells of S along the edges e, S included.
RECURSIVE Closure(_, _)
Closure(e, S) ==
    LET T == S \cup UNION { e[x] : x \in S \cap Positions }
    IN  IF T = S THEN S ELSE Closure(e, T)

\* The cells reached from p along one edge of e or more.
ReachableFrom(e, p) == Closure(e, e[p])

\* The text is a formula the parser accepts.
IsFormulaText(t) == Len(t) > 1 /\ Head(t) = FORMULA_SIGN /\ ParseOk(Tail(t))

\* The positions the formula of the text references.
RefSet(t) == LET r == FormulaCellValue(Tail(t)).refs IN { r[i] : i \in 1..Len(r) }

\* The last call was SetCell and Cell::Set returned.
SetDone == last.op = "SetCell" /\ last.res = "ok"

\* The last call was ClearCell on a position that holds a cell.
ClearDone == last.op = "ClearCell" /\ last.pos \in data_

\* C1: after any sequence of calls, every formula cell whose cache is set
\* holds the value that evaluating its formula from scratch against the
\* current sheet yields.
NoStaleCache ==
    ~fault =>
    \A p \in FormulaCells :
        cache_[p].has => /\ ~FromScratch(p).fault
                        /\ FromScratch(p).val = CacheValue(cache_[p])

\* C2: the graph of the out edges (descending_cells_) has no cycle, and no
\* self-loop.
Acyclic == \A p \in Positions : p \notin ReachableFrom(descending_cells_, p)

\* C2's case: a Set was rejected for a cycle that runs through another
\* formula cell, in a sheet that holds edges.
AcyclicWitness ==
    /\ last.op = "SetCell"
    /\ last.res = "CircularDependency"
    /\ last.pos \notin RefSet(last.text)
    /\ \E p \in Positions : descending_cells_[p] # {}

\* C3: a Cell::Set rejected with CircularDependency or FormulaException leaves
\* every value, every cache, every edge set and the set of cells as they were
\* when Cell::Set was entered (the sheet has made the cell by then).
RejectedSetKeepsState ==
    [][ (last'.op = "SetCell" /\ last'.res \in {"CircularDependency", "FormulaException"})
        => /\ value_' = value_
           /\ cache_' = cache_
           /\ descending_cells_' = descending_cells_
           /\ ascending_cells_' = ascending_cells_
           /\ fault' = fault
           /\ data_' = data_ \cup {last'.pos} ]_vars

\* C3's case: a Set was rejected on a cell that holds a formula, with a cache
\* set somewhere in the sheet.
RejectedSetWitness ==
    /\ last.op = "SetCell"
    /\ last.res \in {"CircularDependency", "FormulaException"}
    /\ value_[last.pos].type = "Formula"
    /\ \E q \in Positions : cache_[q].has

\* C4: Set of a formula one of whose referenced positions is the cell itself,
\* or reaches the cell along out edges, fails with CircularDependency.
CycleIsRejected ==
    [][ ( /\ last'.op = "SetCell"
          /\ IsFormulaText(last'.text)
          /\ \E q \in RefSet(last'.text) :
                 q = last'.pos \/ last'.pos \in ReachableFrom(descending_cells_, q) )
        => last'.res = "CircularDependency" ]_vars

\* C5: a Set of a formula on P that references a position Q holding no cell,
\* and makes no cycle, completes without fault; afterwards Q holds an Empty
\* cell, P is in Q's in set, Q is in P's out set, and P's formula reads Q as 0.
MaterializesReferenced ==
    [][ ( /\ last'.op = "SetCell"
          /\ IsFormulaText(last'.text)
          /\ last'.res # "CircularDependency" )
        => \A q \in RefSet(last'.text) \ (data_ \cup {last'.pos}) :
               /\ last'.res = "ok"
               /\ ~fault'
               /\ q \in data_'
               /\ value_'[q] = EmptyCellValue
               /\ last'.pos \in ascending_cells_'[q]
               /\ q \in descending_cells_'[last'.pos] ]_vars

\* C6: after Clear on a cell X, X is Empty (GetValue 0, GetText the empty
\* string), X's out set is empty, X is in the in set of no cell it referenced,
\* and X's in set is what it was.
ClearPostcondition ==
    [][ \A X \in data_ :
        (last'.op = "ClearCell" /\ last'.pos = X)
        =>     /\ value_'[X].type = "Empty"
               /\ CellGetValue(X, cache_)'.val = Dbl(0, 1)
               /\ ValueGetText(value_'[X]) = <<>>
               /\ descending_cells_'[X] = {}
               /\ \A q \in descending_cells_[X] : X \notin ascending_cells_'[q]
               /\ ascending_cells_'[X] = ascending_cells_[X] ]_vars

\* C6's case: a cell with in edges has been cleared while another cell still
\* holds a formula with out edges.
ClearWitness ==
    /\ ClearDone
    /\ ascending_cells_[last.pos] # {}
    /\ value_[last.pos].type = "Empty"
    /\ descending_cells_[last.pos] = {}

\* C7: a formula cell whose last GetValue returned a FormulaError, and whose
\* formula now evaluates cleanly because an upstream cell has been set since,
\* returns that clean number from its next GetValue.
RecoversAfterError ==
    [][ ( /\ last'.op = "GetValue"
          /\ last'.pos \in errored
          /\ TryInterpretAsFormula(value_[last'.pos])
          /\ ~FromScratch(last'.pos).fault
          /\ FromScratch(last'.pos).val.kind = "double" )
        => /\ last'.res = "ok"
           /\ last'.val = FromScratch(last'.pos).val ]_vars

\* C8: GetReferencedCells returns the empty list on an Empty or Text cell,
\* without fault, and the formula's referenced positions on a Formula cell.
ReferencedCellsContract ==
    last.op = "GetReferencedCells"
    => /\ last.res = "ok"
       /\ ~fault
       /\ last.refs = IF TryInterpretAsFormula(value_[last.pos])
                      THEN value_[last.pos].refs ELSE <<>>

\* The token of each category of FormulaError.
Token(cat) ==
    CASE cat = "Ref" -> <<"#REF!">>
      [] cat = "Value" -> <<"#VALUE!">>
      [] cat = "Div0" -> <<"#DIV/0!">>

\* C9: a FormulaError is written as the token of its own category.
ErrorTokenOfItsKind ==
    \A i \in 1..Len(output) : output[i].token = Token(output[i].cat)

\* C10: right after a successful Set or Clear on X, every formula cell that
\* depends on X, directly or transitively, has its cache unset.
DependentsInvalidated ==
    (~fault /\ (SetDone \/ ClearDone))
    => \A q \in ReachableFrom(ascending_cells_, last.pos) :
           TryInterpretAsFormula(value_[q]) => ~cache_[q].has

\* C11: after every call that returns, B is in A's out set (descending_cells_)
\* if and only if A is in B's in set (ascending_cells_), for all cells A and B.
EdgesSymmetric ==
    ~fault =>
    \A A \in Positions : \A B \in Positions :
        (B \in descending_cells_[A]) <=> (A \in ascending_cells_[B])

\* C11's case: a Set has replaced the formula of a cell that other formulas
\* reference, so edges were detached and attached around in edges that stay.
EdgesSymmetricWitness ==
    /\ SetDone
    /\ Len(work.steps) >= 5
    /\ work.steps[4] = "detach"
    /\ work.steps[5] = "attach"
    /\ ascending_cells_[last.pos] # {}
    /\ descending_cells_[last.pos] # {}

\* C12: after every call that returns, the out set of a Formula cell is the
\* set of the cells at the positions its formula references, and the out set
\* of every other cell is empty.
OutSetIsFormulaRefs ==
    ~fault =>
    \A p \in Positions :
        descending_cells_[p] =
            IF TryInterpretAsFormula(value_[p])
            THEN { value_[p].refs[i] : i \in 1..Len(value_[p].refs) }
            ELSE {}

\* C12's case: a Set has replaced a formula that had out edges by a text or
\* by the empty content.
OutSetWitness ==
    /\ SetDone
    /\ "detach" \in { work.steps[i] : i \in 1..Len(work.steps) }
    /\ ~TryInterpretAsFormula(value_[last.pos])
    /\ descending_cells_[last.pos] = {}

\* C13: a GetValue whose evaluation raises a FormulaError returns the error
\* as its value and leaves unset the cache of every formula cell whose
\* evaluation raised it; and a cache is set or changed only by a GetValue, to
\* the number the evaluation of that cell produced.
ErrorsNeverCached ==
    [][ \A X \in Positions :
        /\ (last'.op = "GetValue" /\ last'.pos = X /\ ~CellGetValue(X, cache_).fault
             /\ CellGetValue(X, cache_).val.kind = "error")
           => /\ last'.res = "ok"
              /\ last'.val = CellGetValue(X, cache_).val
              /\ \A q \in FormulaCells :
                     (~cache_[q].has /\ CellGetValue(q, cache_).val.kind = "error")
                     => ~cache_'[q].has
        /\ (cache_'[X].has /\ cache_'[X] # cache_[X])
           => /\ last'.op = "GetValue"
              /\ CellGetValue(X, cache_).val.kind = "double"
              /\ cache_'[X] = Cached(CellGetValue(X, cache_).val) ]_vars

\* C13's case: a GetValue of a formula cell has returned the FormulaError
\* that a formula cell it references raised, and neither cache is set.
ErrorsNeverCachedWitness ==
    /\ last.op = "GetValue"
    /\ last.res = "ok"
    /\ last.val.kind = "error"
    /\ TryInterpretAsFormula(value_[last.pos])
    /\ ~cache_[last.pos].has
    /\ \E q \in descending_cells_[last.pos] :
           /\ TryInterpretAsFormula(value_[q])
           /\ ~cache_[q].has
           /\ FromScratch(q).val = last.val

\* The place of each step in the order the steps of a Set are to be taken in.
StepRank(s) ==
    CASE s = "construct" -> 1
      [] s = "check" -> 2
      [] s = "invalidate" -> 3
      [] s = "detach" -> 4
      [] s = "swap" -> 5
      [] s = "attach" -> 6

\* C14: the steps one Cell::Set takes come in the order construct, cycle
\* check, invalidate the dependents' caches, detach the old out edges, swap
\* the value, attach the new out edges.
SetStepsInOrder ==
    last.op = "SetCell"
    => \A i \in 1..Len(work.steps) : \A j \in 1..Len(work.steps) :
           i < j => StepRank(work.steps[i]) < StepRank(work.steps[j])

\* C15: a Set or a Clear on X that returns leaves the value, the out set and
\* the cache of every cell other than X that does not depend on X, directly
\* or transitively, as they were.
InvalidationIsPrecise ==
    [][ \A X \in Positions :
        (last'.op \in {"SetCell", "ClearCell"} /\ last'.res = "ok" /\ last'.pos = X)
        => \A q \in Positions \ ({X} \cup ReachableFrom(ascending_cells_, X)) :
               /\ value_'[q] = value_[q]
               /\ descending_cells_'[q] = descending_cells_[q]
               /\ cache_'[q] = cache_[q] ]_vars

\* C15's case: a Set or a Clear has run the invalidation walk up from a cell
\* with dependents while a formula cell that does not depend on it keeps its
\* cache.
InvalidationWitness ==
    /\ SetDone \/ ClearDone
    /\ work.walk > 0
    /\ \E q \in FormulaCells \ ({last.pos} \cup ReachableFrom(ascending_cells_, last.pos)) :
           cache_[q].has

\* C16: a GetValue on X changes no value, no in set, no out set and makes no
\* cell; the only caches it changes are unset caches of formula cells among X
\* and the cells X reaches along out edges, which it sets.
GetValueIsRead ==
    [][ \A X \in Positions :
        (last'.op = "GetValue" /\ last'.res = "ok" /\ last'.pos = X)
        => /\ data_' = data_
           /\ value_' = value_
           /\ descending_cells_' = descending_cells_
           /\ ascending_cells_' = ascending_cells_
           /\ \A q \in Positions :
                  cache_'[q] # cache_[q]
                  => /\ q \in {X} \cup ReachableFrom(descending_cells_, X)
                     /\ TryInterpretAsFormula(value_[q])
                     /\ ~cache_[q].has
                     /\ cache_'[q].has ]_vars

\* C16's case: a GetValue of a formula cell has evaluated a formula cell it
\* references on the way, and both caches are set.
GetValueIsReadWitness ==
    /\ last.op = "GetValue"
    /\ last.res = "ok"
    /\ work.depth >= 3
    /\ cache_[last.pos].has
    /\ \E q \in descending_cells_[last.pos] :
           TryInterpretAsFormula(value_[q]) /\ cache_[q].has

\* C17: the list of referenced positions of every formula is in ascending
\* order, holds each position once, and holds the positions the parser's AST
\* reports, whatever their order and multiplicity there.
ReferencedCellsSortedUnique ==
    ~fault =>
    \A p \in FormulaCells :
        LET refs == value_[p].refs
            reported == GetCells(value_[p].ast)
        IN  /\ \A i \in 1..Len(refs) : \A j \in 1..Len(refs) : i < j => refs[i] < refs[j]
            /\ { refs[i] : i \in 1..Len(refs) } = { reported[i] : i \in 1..Len(reported) }

\* The strict decimal form: an optional sign, an integer part 0 or
\* [1-9][0-9]*, and an optional fraction of a literal "." and digits.
StrictDecimal(s) ==
    LET n == Len(s)
        i == IF n > 0 /\ s[1] = "-" THEN 2 ELSE 1
    IN  \E e \in i..n :
            /\ \/ e = i /\ s[i] = "0"
               \/ IsDigit(s[i]) /\ s[i] # "0" /\ AllDigits(s, i + 1, e)
            /\ \/ e = n
               \/ n >= e + 2 /\ s[e + 1] = "." /\ AllDigits(s, e + 2, n)

\* The number a text of the strict decimal form writes.
StrictValue(s) ==
    LET n    == Len(s)
        neg  == s[1] = "-"
        i    == IF neg THEN 2 ELSE 1
        e    == RunEnd(s, i)
        frac == IF e = n THEN 0 ELSE n - e - 1
        mag  == DigitsValue(s, i, e, 10) * Pow(10, frac) + DigitsValue(s, e + 2, n, 10)
    IN  Dbl(IF neg THEN -mag ELSE mag, Pow(10, frac))

\* C18: a formula that reads a Text cell gets the number its display value
\* (the text without one leading apostrophe) writes if the whole display
\* value is of the strict decimal form, and FormulaError(Value) otherwise.
ReadsTextStrictly ==
    ( /\ last.op = "GetValue"
      /\ last.res = "ok"
      /\ TryInterpretAsFormula(value_[last.pos])
      /\ value_[last.pos].ast.k = "ref"
      /\ value_[value_[last.pos].ast.p].type = "Text" )
    => LET display == TextGetValue(value_[value_[last.pos].ast.p].text)
       IN  last.val = IF StrictDecimal(display) THEN StrictValue(display)
                      ELSE FormulaError("Value")

\* C19: every call ends: the cycle check and the invalidation walk have gone
\* into no cell twice (every insertion into visited was of a new cell), and
\* the evaluation has nested no deeper than the sheet has cells.
CallsTerminate ==
    /\ work.checked = work.check + 1
    /\ work.walked = work.walk + 1
    /\ work.depth <= Cardinality(data_)

\* C19's case: the cycle check of a Set has met a cell again that it had
\* visited (two referenced cells share a descendant), and the Set returned.
CallsTerminateWitness ==
    /\ SetDone
    /\ work.check >= 3
    /\ \E q \in descending_cells_[last.pos] : \E r \in descending_cells_[last.pos] :
           q # r /\ descending_cells_[q] \cap descending_cells_[r] # {}

\* C20: a Set on X of a formula none of whose referenced cells is X or
\* reaches X along out edges does not fail with CircularDependency.
NoFalseCycle ==
    [][ \A X \in Positions :
        ( /\ last'.op = "SetCell"
          /\ last'.pos = X
          /\ IsFormulaText(last'.text)
          /\ \A q \in RefSet(last'.text) :
                 q # X /\ X \notin ReachableFrom(descending_cells_, q) )
        => last'.res # "CircularDependency" ]_vars

\* C20's case: a Set has replaced the formula of X by a formula two of whose
\* referenced cells share a descendant, and it returned.
NoFalseCycleWitness ==
    /\ SetDone
    /\ IsFormulaText(last.text)
    /\ Len(work.steps) >= 4
    /\ work.steps[4] = "detach"
    /\ \E q \in descending_cells_[last.pos] : \E r \in descending_cells_[last.pos] :
           q # r /\ descending_cells_[q] \cap descending_cells_[r] # {}

====
